---- MODULE Spec2Model ----
(***************************************************************************)
(* Model of git-p4-sync.py: the tree mirror FileSyncUtil and the           *)
(* changelist replayer GitP4Sync.                                          *)
(*                                                                         *)
(* A name (one path segment) is a tuple of one-character strings, a path   *)
(* is a tuple of names counted from the filesystem anchor "/".  The        *)
(* filesystem is a finite map from the paths that exist to their entry.    *)
(* Ignore patterns are regular expressions built from literal characters   *)
(* and the wildcard ".", matched as re.match does: anchored at the start   *)
(* of the segment only.                                                    *)
(***************************************************************************)
EXTENDS Integers, Sequences, FiniteSets, TLC

\* ---------------------------------------------------------------- bounds
\* file contents are 1..MaxContent
MaxContent == 2
\* how many change records one answer of "p4 changes" holds at most
MaxChanges == 2
\* the longest path, in segments, the filesystem accepts (ENAMETOOLONG beyond)
MaxPathLen == 4

\* ----------------------------------------------------------------- names
NA == <<"a">>
NG == <<"g", "x">>
NW == <<"w">>
NR == <<"r">>
NP == <<"p">>
NQ == <<"q">>
NO == <<"o">>
Anchor == <<"/">>
\* the "..." that ends the local path "p4 where" reports for a directory
Dots == <<".", ".", ".">>
\* the order in which a directory scan lists the names
NameOrder == <<NA, NG, NW, NR, NP, NQ, NO>>

\* patterns of destination.ignore
PG == <<"g">>
PZ == <<"z">>
IgnoreLists == { <<>>, <<PZ, PG>> }

\* ------------------------------------------------------------ filesystem
DirEntry == [kind |-> "dir", content |-> 0]
FileEntry(c) == [kind |-> "file", content |-> c]

Exists(f, p) == p = <<>> \/ p \in DOMAIN f
IsDir(f, p) == p = <<>> \/ (p \in DOMAIN f /\ f[p].kind = "dir")
IsFile(f, p) == p \in DOMAIN f /\ f[p].kind = "file"

IsPrefix(b, p) == Len(b) <= Len(p) /\ SubSeq(p, 1, Len(b)) = b
Parent(p) == SubSeq(p, 1, Len(p) - 1)
Prefixes(p) == { SubSeq(p, 1, i) : i \in 1..Len(p) }

EmptyFs == [q \in {} |-> DirEntry]

\* Path.exists(): a path below a file does not exist
PathExists(f, p) == Exists(f, p) /\ \A q \in Prefixes(p) : q = p \/ IsDir(f, q)

\* Path.relative_to(base)
relative_to(p, b) == SubSeq(p, Len(b) + 1, Len(p))

\* Path(path).parts of an absolute path: the anchor, then the segments
PartsAbs(p) == <<Anchor>> \o p

\* os.scandir(top): the names in top, in listing order, split as os.walk does
ScanDirs(f, top) == SelectSeq(NameOrder, LAMBDA n : IsDir(f, top \o <<n>>) /\ (top \o <<n>>) \in DOMAIN f)
ScanFiles(f, top) == SelectSeq(NameOrder, LAMBDA n : IsFile(f, top \o <<n>>))

\* Path.mkdir(parents=True, exist_ok=True)
MkdirOk(f, p) ==
    /\ Len(p) <= MaxPathLen
    /\ \A q \in Prefixes(p) : q \notin DOMAIN f \/ f[q].kind = "dir"
MkdirFs(f, p) == [q \in DOMAIN f \cup Prefixes(p) |-> IF q \in DOMAIN f THEN f[q] ELSE DirEntry]

\* shutil.copy2(src_file, dst_file): into the directory when dst_file is one
Copy2Target(f, sf, df) == IF IsDir(f, df) THEN df \o <<sf[Len(sf)]>> ELSE df
Copy2Ok(f, sf, df) ==
    LET t == Copy2Target(f, sf, df)
    IN  /\ IsFile(f, sf)
        /\ PathExists(f, Parent(t)) /\ IsDir(f, Parent(t))
        /\ ~IsDir(f, t)
        /\ t # sf
        /\ Len(t) <= MaxPathLen
Copy2Fs(f, sf, df) ==
    LET t == Copy2Target(f, sf, df)
    IN  [q \in DOMAIN f \cup {t} |-> IF q = t THEN f[sf] ELSE f[q]]

\* Path.unlink()
UnlinkFs(f, p) == [q \in DOMAIN f \ {p} |-> f[q]]
\* shutil.rmtree(dir)
RmtreeFs(f, p) == [q \in { x \in DOMAIN f : ~IsPrefix(p, x) } |-> f[q]]

\* --------------------------------------------------------- FileSyncUtil
\* re.match(pattern, part) for a pattern of literals and "."
re_match(pattern, part) ==
    /\ Len(pattern) <= Len(part)
    /\ \A i \in 1..Len(pattern) : pattern[i] = "." \/ pattern[i] = part[i]

\* FileSyncUtil.should_ignore on the parts of its argument
should_ignore(ignore, parts) ==
    \E i \in 1..Len(parts) : \E j \in 1..Len(ignore) : re_match(ignore[j], parts[i])


\* The record m = [fs, ops, log, raised] is the world a run of the mirror
\* acts on: the filesystem, the mutating calls executed so far, the lines
\* logged so far and whether an exception has propagated out of run().
\* The record s = [src, dst, ignore, dry_run, verbose] is the FileSyncUtil.
Op(o, p) == [op |-> o, path |-> p]

Logged(m, s, o, p) == IF s.verbose THEN Append(m.log, Op(o, p)) ELSE m.log

\* run(), lines 87-88: the line a verbose run starts with
RunLine(s) == [op |-> "Syncing directories", path |-> s.dst, src |-> s.src]
LogRun(m, s) == IF s.verbose THEN [m EXCEPT !.log = Append(m.log, RunLine(s))] ELSE m

\* run(), lines 90-94: create the destination root
EnsureDst(m, s) ==
    IF PathExists(m.fs, s.dst) THEN m
    ELSE LET lg == Logged(m, s, "mkdir", s.dst)
         IN  IF s.dry_run THEN [m EXCEPT !.log = lg]
             ELSE IF MkdirOk(m.fs, s.dst)
                  THEN [m EXCEPT !.log = lg, !.fs = MkdirFs(m.fs, s.dst),
                                 !.ops = Append(m.ops, Op("mkdir", s.dst))]
                  ELSE [m EXCEPT !.log = lg, !.raised = TRUE]

\* run(), lines 105-113: one iteration of "for dir_name in dirs"
CreateDir(m, s, dst_root, dir_name) ==
    LET dst_dir == dst_root \o <<dir_name>>
        lg == Logged(m, s, "mkdir", relative_to(dst_dir, s.dst))
    IN  IF m.raised \/ should_ignore(s.ignore, <<dir_name>>) THEN m
        ELSE IF PathExists(m.fs, dst_dir) THEN m
        ELSE IF s.dry_run THEN [m EXCEPT !.log = lg]
        ELSE IF MkdirOk(m.fs, dst_dir)
             THEN [m EXCEPT !.log = lg, !.fs = MkdirFs(m.fs, dst_dir),
                            !.ops = Append(m.ops, Op("mkdir", dst_dir))]
             ELSE [m EXCEPT !.log = lg, !.raised = TRUE]

\* run(), lines 116-126: one iteration of "for file_name in files"
CopyFile(m, s, src_root, dst_root, file_name) ==
    LET src_file == src_root \o <<file_name>>
        dst_file == dst_root \o <<file_name>>
        lg == Logged(m, s, "copy", relative_to(dst_file, s.dst))
        chm == IF PathExists(m.fs, dst_file)
               THEN Append(m.ops, Op("chmod", dst_file)) ELSE m.ops
    IN  IF m.raised \/ should_ignore(s.ignore, <<file_name>>) THEN m
        ELSE IF s.dry_run THEN [m EXCEPT !.log = lg]
        ELSE IF Copy2Ok(m.fs, src_file, dst_file)
             THEN [m EXCEPT !.log = lg, !.fs = Copy2Fs(m.fs, src_file, dst_file),
                            !.ops = Append(chm, Op("copy", Copy2Target(m.fs, src_file, dst_file)))]
             ELSE [m EXCEPT !.log = lg, !.ops = chm, !.raised = TRUE]

RECURSIVE CreateDirs(_, _, _, _)
CreateDirs(m, s, dst_root, dirs) ==
    IF dirs = <<>> THEN m
    ELSE CreateDirs(CreateDir(m, s, dst_root, Head(dirs)), s, dst_root, Tail(dirs))

RECURSIVE CopyFiles(_, _, _, _, _)
CopyFiles(m, s, src_root, dst_root, files) ==
    IF files = <<>> THEN m
    ELSE CopyFiles(CopyFile(m, s, src_root, dst_root, Head(files)), s, src_root, dst_root, Tail(files))

\* CopyBody without the test of line 97: descends into ignored directories
CopyBody_NoRootTest(m, s, root, dirs, files) ==
    LET dst_root == s.dst \o relative_to(root, s.src)
    IN  CopyFiles(CreateDirs(m, s, dst_root, dirs), s, root, dst_root, files)

\* run(), lines 97-126: the body of the copy loop for one (root, dirs, files)
CopyBody(m, s, root, dirs, files) ==
    IF should_ignore(s.ignore, PartsAbs(root)) THEN m
    ELSE LET dst_root == s.dst \o relative_to(root, s.src)
         IN  CopyFiles(CreateDirs(m, s, dst_root, dirs), s, root, dst_root, files)

\* DeleteFile with the test of line 139 inverted: deletes what src still has
DeleteFile_Inverted(m, s, src_root, dst_root, file_name) ==
    LET dst_file == dst_root \o <<file_name>>
    IN  IF m.raised \/ ~PathExists(m.fs, src_root \o <<file_name>>) THEN m
        ELSE IF s.dry_run THEN [m EXCEPT !.log = Logged(m, s, "rm", relative_to(dst_file, s.dst))]
        ELSE [m EXCEPT !.fs = UnlinkFs(m.fs, dst_file),
                       !.ops = m.ops \o <<Op("chmod", dst_file), Op("unlink", dst_file)>>]

\* run(), lines 138-145: one iteration of "for file_name in files"
DeleteFile(m, s, src_root, dst_root, file_name) ==
    LET dst_file == dst_root \o <<file_name>>
        lg == Logged(m, s, "rm", relative_to(dst_file, s.dst))
    IN  IF m.raised \/ PathExists(m.fs, src_root \o <<file_name>>) THEN m
        ELSE IF s.dry_run THEN [m EXCEPT !.log = lg]
        ELSE IF PathExists(m.fs, dst_file)
             THEN [m EXCEPT !.log = lg, !.fs = UnlinkFs(m.fs, dst_file),
                            !.ops = m.ops \o <<Op("chmod", dst_file), Op("unlink", dst_file)>>]
             ELSE [m EXCEPT !.log = lg, !.raised = TRUE]

\* run(), lines 148-157: one iteration of "for dir_name in dirs"
DeleteDir(m, s, src_root, dst_root, dir_name) ==
    LET dst_dir == dst_root \o <<dir_name>>
        lg == Logged(m, s, "rmdir", relative_to(dst_dir, s.dst))
    IN  IF m.raised \/ should_ignore(s.ignore, <<dir_name>>) THEN m
        ELSE IF PathExists(m.fs, src_root \o <<dir_name>>) THEN m
        ELSE IF s.dry_run THEN [m EXCEPT !.log = lg]
        ELSE IF IsDir(m.fs, dst_dir) /\ PathExists(m.fs, dst_dir)
             THEN [m EXCEPT !.log = lg, !.fs = RmtreeFs(m.fs, dst_dir),
                            !.ops = Append(m.ops, Op("rmtree", dst_dir))]
             ELSE [m EXCEPT !.log = lg, !.raised = TRUE]

RECURSIVE DeleteFiles(_, _, _, _, _)
DeleteFiles(m, s, src_root, dst_root, files) ==
    IF files = <<>> THEN m
    ELSE DeleteFiles(DeleteFile(m, s, src_root, dst_root, Head(files)), s, src_root, dst_root, Tail(files))

RECURSIVE DeleteDirs(_, _, _, _, _)
DeleteDirs(m, s, src_root, dst_root, dirs) ==
    IF dirs = <<>> THEN m
    ELSE DeleteDirs(DeleteDir(m, s, src_root, dst_root, Head(dirs)), s, src_root, dst_root, Tail(dirs))

\* run(), lines 130-157: the body of the deletion loop for one (root, dirs, files)
DeleteBody(m, s, root, dirs, files) ==
    IF should_ignore(s.ignore, PartsAbs(root)) THEN m
    ELSE LET src_root == s.src \o relative_to(root, s.dst)
         IN  DeleteDirs(DeleteFiles(m, s, src_root, root, files), s, src_root, root, dirs)

\* ---------------------------------------------------------------- os.walk
\* The walk keeps a stack.  An entry is a directory still to be scanned, or
\* (bottom-up only) a scanned (root, dirs, files) waiting to be yielded.
ToScan(p) == [path |-> p, scanned |-> FALSE, dirs |-> <<>>, files |-> <<>>]
Scanned(f, p) == [path |-> p, scanned |-> TRUE, dirs |-> ScanDirs(f, p), files |-> ScanFiles(f, p)]
Children(p, dirs) == [i \in 1..Len(dirs) |-> ToScan(p \o <<dirs[i]>>)]
CanScan(f, p) == PathExists(f, p) /\ IsDir(f, p)

\* os.walk(top): advance to the next yield; a directory that cannot be
\* scanned is skipped
RECURSIVE WalkTopDown(_, _)
WalkTopDown(f, st) ==
    IF st = <<>> THEN st
    ELSE IF CanScan(f, Head(st).path) THEN st
    ELSE WalkTopDown(f, Tail(st))

\* os.walk(top, topdown=False): a directory is scanned when it is reached,
\* its subdirectories are walked, and only then is it yielded
RECURSIVE WalkBottomUp(_, _)
WalkBottomUp(f, st) ==
    IF st = <<>> THEN st
    ELSE IF Head(st).scanned THEN st
    ELSE IF CanScan(f, Head(st).path)
         THEN LET e == Scanned(f, Head(st).path)
              IN  WalkBottomUp(f, Children(e.path, e.dirs) \o <<e>> \o Tail(st))
         ELSE WalkBottomUp(f, Tail(st))


\* FileSyncUtil.run as a function of the world: the copy loop, then the
\* deletion loop, stopping where an exception propagates
RECURSIVE CopyLoop(_, _, _)
CopyLoop(m, s, st0) ==
    LET st == WalkTopDown(m.fs, st0)
    IN  IF m.raised \/ st = <<>> THEN m
        ELSE LET e == Scanned(m.fs, Head(st).path)
             IN  CopyLoop(CopyBody(m, s, e.path, e.dirs, e.files), s,
                          Children(e.path, e.dirs) \o Tail(st))

RECURSIVE DeleteLoop(_, _, _)
DeleteLoop(m, s, st0) ==
    LET st == WalkBottomUp(m.fs, st0)
    IN  IF m.raised \/ st = <<>> THEN m
        ELSE LET e == Head(st)
             IN  DeleteLoop(DeleteBody(m, s, e.path, e.dirs, e.files), s, Tail(st))

run(m, s) ==
    DeleteLoop(CopyLoop(EnsureDst(LogRun(m, s), s), s, <<ToScan(s.src)>>), s, <<ToScan(s.dst)>>)

\* ------------------------------------------------------------- strings
\* Change ids, submit times and dates are strings of decimal digits.
Digits == <<"0", "1", "2", "3", "4", "5", "6", "7", "8", "9">>
DigitVal(c) == (CHOOSE i \in 1..Len(Digits) : Digits[i] = c) - 1

\* int(text)
RECURSIVE int(_)
int(t) == IF t = <<>> THEN 0
          ELSE int(SubSeq(t, 1, Len(t) - 1)) * Len(Digits) + DigitVal(t[Len(t)])

\* str(number)
RECURSIVE str(_)
str(n) == IF n < Len(Digits) THEN <<Digits[n + 1]>>
          ELSE str(n \div Len(Digits)) \o <<Digits[(n % Len(Digits)) + 1]>>

\* a < b on Python strings of digits: lexicographic by code point
RECURSIVE StrLess(_, _)
StrLess(a, b) ==
    IF b = <<>> THEN FALSE
    ELSE IF a = <<>> THEN TRUE
    ELSE IF a[1] = b[1] THEN StrLess(Tail(a), Tail(b))
    ELSE DigitVal(a[1]) < DigitVal(b[1])

\* sorted(set(...)) of strings
RECURSIVE sorted(_)
sorted(S) ==
    IF S = {} THEN <<>>
    ELSE LET least == CHOOSE x \in S : \A y \in S \ {x} : StrLess(x, y)
         IN  <<least>> \o sorted(S \ {least})

Range(q) == { q[i] : i \in 1..Len(q) }

\* text.strip()
Whitespace == {" ", "\n", "\t"}
RECURSIVE lstrip(_)
lstrip(t) == IF t # <<>> /\ t[1] \in Whitespace THEN lstrip(Tail(t)) ELSE t
RECURSIVE rstrip(_)
rstrip(t) == IF t # <<>> /\ t[Len(t)] \in Whitespace THEN rstrip(SubSeq(t, 1, Len(t) - 1)) ELSE t
strip(t) == rstrip(lstrip(t))

\* ------------------------------------------------------------ GitP4Sync
\* _p4_run without the test of line 191: the command always runs
P4Executes_Always(dry_run) == TRUE

\* _p4_run(dry_run, ...), p4_run, p4_run_safe and git_run_env: whether the
\* command is executed
P4Executes(dry_run) == ~dry_run
p4_run(self) == P4Executes(self.dry_run)
p4_run_safe(self) == P4Executes(FALSE)
git_run_env(self) == ~self.dry_run

\* an executed external command, with what it answered
Cmd(c, a, o) == [cmd |-> c, args |-> a, out |-> o]

\* Path(self.dst_root) / dst_rel_path: an absolute right operand replaces
\* the left one
PathJoin(base, rel) == IF rel.abs THEN rel.segs ELSE base \o rel.segs

\* src_info[0]["path"].removesuffix("\\...")
removesuffix(path) ==
    IF path # <<>> /\ path[Len(path)] = Dots THEN SubSeq(path, 1, Len(path) - 1) ELSE path

\* result[src_path] = dst_path on a dict kept in insertion order
DictSet(d, k, v) ==
    IF \E i \in 1..Len(d) : d[i].src = k
    THEN [i \in 1..Len(d) |-> IF d[i].src = k THEN [src |-> k, dst |-> v] ELSE d[i]]
    ELSE Append(d, [src |-> k, dst |-> v])

\* resolve_paths, lines 210-220, over the pairs from the i-th on
RECURSIVE resolve_paths(_, _, _, _)
resolve_paths(self, where, i, result) ==
    IF i > Len(self.path_map) THEN result
    ELSE LET dst_path == PathJoin(self.dst_root, self.path_map[i].dst_rel)
             src_info == where[self.path_map[i].depot]
         IN  resolve_paths(self, where, i + 1,
                 IF Len(src_info) = 1
                 THEN DictSet(result, removesuffix(src_info[1]), dst_path)
                 ELSE result)

\* the "p4 where" calls of resolve_paths, one for each configured pair
WhereCmds(self, where) ==
    [i \in 1..Len(self.path_map) |->
        Cmd("p4 where", <<self.path_map[i].depot>>, where[self.path_map[i].depot])]

\* view_paths that loses the revision it is given
view_paths_Zero(self, rev) ==
    [i \in 1..Len(self.path_map) |-> [path |-> self.path_map[i].depot, rev |-> <<"0">>]]

\* lines 243-244 and 269-270: one "<path>@<rev>" for each key of path_map
view_paths(self, rev) ==
    [i \in 1..Len(self.path_map) |-> [path |-> self.path_map[i].depot, rev |-> rev]]

\* line 281: the values of path_map
dst_paths(self) == [i \in 1..Len(self.path_map) |-> self.path_map[i].dst_rel]
\* line 310: the keys of path_map
depot_paths(self) == [i \in 1..Len(self.path_map) |-> self.path_map[i].depot]

\* the test of line 246 never succeeds
no_changes_Never(answer) == FALSE

\* line 246: "if not changes"
no_changes(answer) == answer = <<>>

\* line 252
cl_list_of(answer) == sorted(Range(answer))

\* a "git reset HEAD" that leaves the staging area as it is
git_reset_Keep(staged, committed) == staged

\* line 255, "git reset HEAD": the staging area becomes the tree of HEAD
git_reset(staged, committed) == committed

\* lines 214-215 under exception_level RAISE_ERRORS (line 181): the first
\* pair whose "p4 where" raises P4Exception, 0 when none does
where_raises(self, err) ==
    LET bad == { i \in 1..Len(self.path_map) : self.path_map[i].depot \in err }
    IN  IF bad = {} THEN 0 ELSE CHOOSE i \in bad : \A j \in bad : i <= j

\* git_desc with the test of no_cl lost
git_desc_AlwaysCl(self, description, cl) == description \o <<"\n", "C", "L", " ">> \o cl

\* line 287
git_desc(self, description, cl) ==
    IF self.no_cl THEN description ELSE description \o <<"\n", "C", "L", " ">> \o cl

\* the return code is never looked at
commit_failed_Never(result) == FALSE

\* lines 289-293: the commit was run and returned non-zero
commit_failed(result) == result.ran /\ result.returncode # 0

RECURSIVE mirror_all_paths(_, _, _, _)
\* mirror_all_paths without the test of line 226: always workspace to repository
mirror_all_paths_Forward(m, self, reverse, i) ==
    IF m.raised \/ i > Len(self.resolved_path_map) THEN m
    ELSE LET pr == self.resolved_path_map[i]
             sy == [src |-> pr.src, dst |-> pr.dst,
                    ignore |-> self.ignore, dry_run |-> self.dry_run,
                    verbose |-> self.verbose]
         IN  mirror_all_paths(run(m, sy), self, reverse, i + 1)

\* mirror_all_paths, lines 222-233, over the resolved pairs from the i-th on
mirror_all_paths(m, self, reverse, i) ==
    IF m.raised \/ i > Len(self.resolved_path_map) THEN m
    ELSE LET pr == self.resolved_path_map[i]
             sy == [src |-> IF reverse THEN pr.dst ELSE pr.src,
                    dst |-> IF reverse THEN pr.src ELSE pr.dst,
                    ignore |-> self.ignore, dry_run |-> self.dry_run,
                    verbose |-> self.verbose]
         IN  mirror_all_paths(run(m, sy), self, reverse, i + 1)

\* ------------------------------------------------- the two servers' side
\* What "p4 sync <path>@<cl>" leaves below a local path: the depot at cl.
\* Every change edits the file a; the even changes add the file o, the odd
\* ones delete it.
DepotTree(lp, cl) ==
    (lp :> DirEntry) @@ ((lp \o <<NA>>) :> FileEntry((int(cl) % MaxContent) + 1))
    @@ (IF int(cl) % 2 = 0 THEN (lp \o <<NO>>) :> FileEntry(1) ELSE EmptyFs)

\* "p4 sync" of the view paths: every local path the client maps for one of
\* them holds the depot's files of that change afterwards
RECURSIVE SyncLocal(_, _, _)
SyncLocal(f, lps, cl) ==
    IF lps = <<>> THEN f
    ELSE LET lp == removesuffix(Head(lps))
         IN  SyncLocal(DepotTree(lp, cl) @@ RmtreeFs(f, lp), Tail(lps), cl)

\* a "p4 sync" that transfers nothing
P4SyncFs_Skip(f, where, vps, i) == f

RECURSIVE P4SyncFs(_, _, _, _)
P4SyncFs(f, where, vps, i) ==
    IF i > Len(vps) THEN f
    ELSE P4SyncFs(SyncLocal(f, where[vps[i].path], vps[i].rev), where, vps, i + 1)

\* git: the files of the working tree at or below a path
WorkFiles(f, base) == { p \in DOMAIN f : IsPrefix(base, p) /\ IsFile(f, p) /\ PathExists(f, p) }
\* "git add <pathspec>..." fails as a whole when a pathspec matches nothing
PathspecOk(f, staged, ps) == PathExists(f, ps) \/ \E p \in DOMAIN staged : IsPrefix(ps, p)
GitAddOk(f, staged, pss) == \A i \in 1..Len(pss) : PathspecOk(f, staged, pss[i])
\* and when a pathspec is outside the repository
InRepo(root, pss) == \A i \in 1..Len(pss) : IsPrefix(root, pss[i])
GitAddIndex(f, staged, pss) ==
    LET covered(p) == \E i \in 1..Len(pss) : IsPrefix(pss[i], p)
        keep == { p \in DOMAIN staged : ~covered(p) }
        take == UNION { WorkFiles(f, pss[i]) : i \in 1..Len(pss) }
    IN  [p \in keep \cup take |-> IF p \in take THEN f[p] ELSE staged[p]]

\* ================================================================= state
VARIABLES
    fs,       \* the filesystem
    ops,      \* mutating filesystem calls executed by the mirror
    log,      \* LOG.debug lines of the mirror decisions (verbose only)
    syncer,   \* the FileSyncUtil: src, dst, ignore, dry_run, verbose
    pc,       \* where FileSyncUtil.run is: idle, copy, delete, done, raised (none: no syncer)
    stack,    \* the stack of the os.walk in progress
    fs0,      \* the filesystem when the current run() began
    rerun,    \* TRUE once run() has been called a second time on the syncer
    app,      \* the GitP4Sync: its configuration and resolved_path_map
    gpc,      \* where the GitP4Sync command is (none: no GitP4Sync)
    p4where,  \* the client view: what "p4 where" answers for a depot path
    p4err,    \* the depot paths for which "p4 where" reports an error
    changes,  \* what "p4 changes" answered
    cl_list,  \* line 252
    idx,      \* position of the replay loop in cl_list
    cur,      \* cl, description and date of the sync_cl in progress
    cmds,     \* the p4 and git commands executed, in order
    commits,  \* the commits created in the git repository, oldest first
    head,     \* the files of the HEAD commit
    index     \* the files of the git staging area

mvars == <<syncer, pc, stack, fs0, rerun>>
gvars == <<app, gpc, p4where, p4err, changes, cl_list, idx, cur, cmds, commits, head, index>>
vars == <<fs, ops, log, syncer, pc, stack, fs0, rerun,
          app, gpc, p4where, p4err, changes, cl_list, idx, cur, cmds, commits, head, index>>

World == [fs |-> fs, ops |-> ops, log |-> log, raised |-> FALSE]

\* ------------------------------------------------------- initial trees
Contents == 1..MaxContent

\* what may sit at p: nothing, a file, an empty directory
Leaf(p) == {EmptyFs} \cup { p :> FileEntry(c) : c \in Contents } \cup { p :> DirEntry }
\* what may sit at p: nothing, a file, a directory holding a Leaf named n
Top(p, n) == {EmptyFs} \cup { p :> FileEntry(c) : c \in Contents }
             \cup { (p :> DirEntry) @@ l : l \in Leaf(p \o <<n>>) }
\* the trees a root may hold; the root itself may be missing
Trees(root) == {EmptyFs} \cup
    { (root :> DirEntry) @@ a @@ g : a \in Top(root \o <<NA>>, NG), g \in Top(root \o <<NG>>, NA) }

SrcRoot == <<NW>>
DstRoot == <<NR>>
\* a source root with a segment that the rule "g" matches, and the small
\* trees mirrored from it
IgnSrcRoot == <<NG>>
Small(root) == { (root :> DirEntry) @@ l : l \in Leaf(root \o <<NA>>) }
\* a destination root inside the source root
InnerDstRoot == <<NW, NA>>

\* the roots of a mirror and the trees below them
Mirrors ==
    { [src |-> SrcRoot, dst |-> DstRoot, fs |-> s @@ d] :
          s \in Trees(SrcRoot), d \in Trees(DstRoot) }
    \cup { [src |-> IgnSrcRoot, dst |-> DstRoot, fs |-> s @@ d] :
              s \in Small(IgnSrcRoot), d \in Small(DstRoot) }
    \cup { [src |-> SrcRoot, dst |-> InnerDstRoot, fs |-> s] : s \in Trees(SrcRoot) }

\* the configuration: [paths] of the TOML file, in file order
Rel(segs) == [abs |-> FALSE, segs |-> segs]
DepotP == "//depot/p/..."
DepotQ == "//depot/q/..."
PathMap == << [depot |-> DepotP, dst_rel |-> Rel(<<NP>>)],
              [depot |-> DepotQ, dst_rel |-> Rel(<<NQ>>)] >>
\* the same with the second destination written as the absolute path "/o"
PathMapAbs == << [depot |-> DepotP, dst_rel |-> Rel(<<NP>>)],
                 [depot |-> DepotQ, dst_rel |-> [abs |-> TRUE, segs |-> <<NO>>]] >>
PathMaps == {PathMap, PathMapAbs}
LocalOf(depot) == IF depot = DepotP THEN <<NW, NP>> ELSE <<NW, NQ>>
Depots == { PathMap[i].depot : i \in 1..Len(PathMap) }

NoApp == [path_map |-> <<>>, ignore |-> <<>>, no_cl |-> FALSE, dry_run |-> FALSE,
          verbose |-> FALSE, src_root |-> <<>>, dst_root |-> <<>>,
          resolved_path_map |-> <<>>]
NoCur == [cl |-> <<>>, description |-> <<>>, date |-> 0]
NoSyncer == [src |-> <<>>, dst |-> <<>>, ignore |-> <<>>, dry_run |-> FALSE, verbose |-> FALSE]

InitIdleApp ==
    /\ app = NoApp
    /\ gpc = "none"
    /\ p4where = [d \in {} |-> <<>>]
    /\ p4err = {}
    /\ changes = <<>>
    /\ cl_list = <<>>
    /\ idx = 0
    /\ cur = NoCur
    /\ cmds = <<>>
    /\ commits = <<>>
    /\ head = EmptyFs
    /\ index = EmptyFs

InitMirror ==
    /\ \E mi \in Mirrors, ig \in IgnoreLists, dr \in BOOLEAN, vb \in BOOLEAN :
          /\ fs = mi.fs
          /\ syncer = [src |-> mi.src, dst |-> mi.dst, ignore |-> ig,
                       dry_run |-> dr, verbose |-> vb]
    /\ ops = <<>>
    /\ log = <<>>
    /\ pc = "idle"
    /\ stack = <<>>
    /\ fs0 = fs
    /\ rerun = FALSE
    /\ InitIdleApp

\* ------------------------------------------------ FileSyncUtil.run steps
Settle(m, nextpc, st) ==
    /\ fs' = m.fs
    /\ ops' = m.ops
    /\ log' = m.log
    /\ pc' = IF m.raised THEN "raised" ELSE nextpc
    /\ stack' = IF m.raised THEN <<>> ELSE st

\* lines 87-94, and the start of the copy walk
RunBegin ==
    /\ pc = "idle" \/ (pc = "done" /\ ~rerun)
    /\ rerun' = (pc = "done")
    /\ fs0' = fs
    /\ Settle(EnsureDst(LogRun([World EXCEPT !.ops = <<>>], syncer), syncer),
              "copy", <<ToScan(syncer.src)>>)
    /\ UNCHANGED syncer
    /\ UNCHANGED gvars

\* lines 96-126: one iteration of the copy loop
CopyStep ==
    /\ pc = "copy"
    /\ LET st == WalkTopDown(fs, stack)
       IN  /\ st # <<>>
           /\ LET e == Scanned(fs, Head(st).path)
              IN  Settle(CopyBody(World, syncer, e.path, e.dirs, e.files), "copy",
                         Children(e.path, e.dirs) \o Tail(st))
    /\ UNCHANGED <<syncer, fs0, rerun>>
    /\ UNCHANGED gvars

\* the copy walk is exhausted: line 129 starts the deletion walk
CopyEnd ==
    /\ pc = "copy"
    /\ WalkTopDown(fs, stack) = <<>>
    /\ pc' = "delete"
    /\ stack' = <<ToScan(syncer.dst)>>
    /\ UNCHANGED <<fs, ops, log, syncer, fs0, rerun>>
    /\ UNCHANGED gvars

\* lines 129-157: one iteration of the deletion loop
DeleteStep ==
    /\ pc = "delete"
    /\ LET st == WalkBottomUp(fs, stack)
       IN  /\ st # <<>>
           /\ LET e == Head(st)
              IN  Settle(DeleteBody(World, syncer, e.path, e.dirs, e.files), "delete", Tail(st))
    /\ UNCHANGED <<syncer, fs0, rerun>>
    /\ UNCHANGED gvars

\* the deletion walk is exhausted: run() returns
DeleteEnd ==
    /\ pc = "delete"
    /\ WalkBottomUp(fs, stack) = <<>>
    /\ pc' = "done"
    /\ stack' = <<>>
    /\ UNCHANGED <<fs, ops, log, syncer, fs0, rerun>>
    /\ UNCHANGED gvars

NextMirror == RunBegin \/ CopyStep \/ CopyEnd \/ DeleteStep \/ DeleteEnd

SpecMirror == InitMirror /\ [][NextMirror]_vars


\* ===================================================== GitP4Sync steps
\* what the p4 client may map a depot path to: nothing, one local path, two
WhereAnswers(d) == { <<>>, <<LocalOf(d) \o <<Dots>>>>,
                     <<LocalOf(d) \o <<Dots>>, <<NW, NO, Dots>>>> }
\* the ids of the submitted changes, and what "p4 changes" may answer
ChangeNums == 9..10
ChangeIds == { str(n) : n \in ChangeNums }
RECURSIVE SeqsUpTo(_, _)
SeqsUpTo(S, n) ==
    IF n = 0 THEN {<<>>}
    ELSE LET shorter == SeqsUpTo(S, n - 1)
         IN  shorter \cup { Append(q, x) : q \in shorter, x \in S }
ChangeAnswers == SeqsUpTo(ChangeIds, MaxChanges)
\* what "p4 describe" may answer
Describes == { [desc |-> <<"x", " ", "y">>, time |-> <<"7">>],
               [desc |-> <<"\n", "x", "\n">>, time |-> <<"1", "2">>] }
\* the arguments of sync_range
first_cl == str(9)
last_cl == str(10)

\* the workspace as last synced, and the destination repository
WorkTree ==
    (<<NW>> :> DirEntry) @@ DepotTree(<<NW, NP>>, str(1)) @@ DepotTree(<<NW, NQ>>, str(1))
RepoTrees ==
    { (<<NR>> :> DirEntry),
      (<<NR>> :> DirEntry) @@ DepotTree(<<NR, NP>>, str(1)) @@ DepotTree(<<NR, NQ>>, str(1))
          @@ (<<NR, NQ, NG>> :> FileEntry(1)) }
Leftover == (<<NR, NO>> :> FileEntry(1))

InitSync ==
    /\ \E r \in RepoTrees, staged \in {EmptyFs, Leftover} :
          /\ fs = WorkTree @@ r @@ staged
          /\ head = [p \in WorkFiles(r, <<NR>>) |-> r[p]]
          /\ index = staged @@ head
    /\ \E pm \in PathMaps, ig \in IgnoreLists, nc \in BOOLEAN, dr \in BOOLEAN :
          app = [path_map |-> pm, ignore |-> ig, no_cl |-> nc, dry_run |-> dr,
                 verbose |-> TRUE, src_root |-> <<NW>>, dst_root |-> <<NR>>,
                 resolved_path_map |-> <<>>]
    /\ p4where \in [Depots -> UNION { WhereAnswers(d) : d \in Depots }]
    /\ \A d \in Depots : p4where[d] \in WhereAnswers(d)
    /\ p4err \in SUBSET Depots
    /\ \A d \in p4err : p4where[d] = <<>>
    /\ gpc = "new"
    /\ changes = <<>>
    /\ cl_list = <<>>
    /\ idx = 0
    /\ cur = NoCur
    /\ cmds = <<>>
    /\ commits = <<>>
    /\ ops = <<>>
    /\ log = <<>>
    /\ syncer = NoSyncer
    /\ pc = "none"
    /\ stack = <<>>
    /\ fs0 = fs
    /\ rerun = FALSE

\* __init__, lines 165-187: resolve_paths runs "p4 where" for every pair
Construct ==
    /\ gpc = "new"
    /\ LET k == where_raises(app, p4err)
       IN  IF k = 0
           THEN /\ app' = [app EXCEPT !.resolved_path_map = resolve_paths(app, p4where, 1, <<>>)]
                /\ cmds' = IF p4_run_safe(app) THEN cmds \o WhereCmds(app, p4where) ELSE cmds
                /\ gpc' = "ready"
           ELSE /\ app' = app
                /\ cmds' = cmds \o SubSeq(WhereCmds(app, p4where), 1, k)
                /\ gpc' = "raised"
    /\ UNCHANGED <<fs, ops, log, p4where, p4err, changes, cl_list, idx, cur, commits, head, index>>
    /\ UNCHANGED mvars

\* sync_range, lines 239-252: the changes query, and the replay list
SyncRangeDiscover ==
    /\ gpc = "ready"
    /\ \E answer \in ChangeAnswers :
          /\ p4_run_safe(app)
          /\ changes' = answer
          /\ cmds' = Append(cmds, Cmd("p4 changes",
                                      view_paths(app, first_cl \o <<",">> \o last_cl), answer))
          /\ cl_list' = IF no_changes(answer) THEN <<>> ELSE cl_list_of(answer)
          /\ gpc' = IF no_changes(answer) THEN "done" ELSE "reset"
    /\ UNCHANGED <<fs, ops, log, app, p4where, p4err, idx, cur, commits, head, index>>
    /\ UNCHANGED mvars

\* sync_range, lines 254-257: unstage leftover work, enter the loop
SyncRangeReset ==
    /\ gpc = "reset"
    /\ IF git_run_env(app)
       THEN /\ index' = git_reset(index, head)
            /\ cmds' = Append(cmds, Cmd("git reset", <<"HEAD">>, 0))
       ELSE UNCHANGED <<index, cmds>>
    /\ idx' = 1
    /\ gpc' = IF cl_list = <<>> THEN "done" ELSE "describe"
    /\ UNCHANGED <<fs, ops, log, app, p4where, p4err, changes, cl_list, cur, commits, head>>
    /\ UNCHANGED mvars

\* sync_cl, lines 261-265
SyncClDescribe ==
    /\ gpc = "describe"
    /\ \E d \in Describes :
          /\ p4_run_safe(app)
          /\ cmds' = Append(cmds, Cmd("p4 describe", <<cl_list[idx]>>, d))
          /\ cur' = [cl |-> cl_list[idx], description |-> strip(d.desc), date |-> int(d.time)]
    /\ gpc' = "sync"
    /\ UNCHANGED <<fs, ops, log, app, p4where, p4err, changes, cl_list, idx, commits, head, index>>
    /\ UNCHANGED mvars

\* sync_cl, lines 268-271: sync the workspace to the change
SyncClP4Sync ==
    /\ gpc = "sync"
    /\ IF p4_run(app)
       THEN /\ fs' = P4SyncFs(fs, p4where, view_paths(app, cur.cl), 1)
            /\ cmds' = Append(cmds, Cmd("p4 sync", view_paths(app, cur.cl), <<>>))
       ELSE UNCHANGED <<fs, cmds>>
    /\ gpc' = "mirror"
    /\ UNCHANGED <<ops, log, app, p4where, p4err, changes, cl_list, idx, cur, commits, head, index>>
    /\ UNCHANGED mvars

\* sync_cl, line 274: mirror every resolved pair
SyncClMirror ==
    /\ gpc = "mirror"
    /\ LET m == mirror_all_paths(World, app, FALSE, 1)
       IN  /\ fs' = m.fs
           /\ ops' = m.ops
           /\ log' = m.log
           /\ gpc' = IF m.raised THEN "raised" ELSE "add"
    /\ UNCHANGED <<app, p4where, p4err, changes, cl_list, idx, cur, cmds, commits, head, index>>
    /\ UNCHANGED mvars

\* sync_cl, lines 276-282: reset is False, so only the paths are staged.
\* git runs in the repository root, where the relative paths are looked up.
SyncClAdd ==
    /\ gpc = "add"
    /\ LET pss == [i \in 1..Len(app.path_map) |-> PathJoin(app.dst_root, dst_paths(app)[i])]
           ok == GitAddOk(fs, index, pss) /\ InRepo(app.dst_root, pss)
       IN  IF git_run_env(app)
           THEN /\ index' = IF ok THEN GitAddIndex(fs, index, pss) ELSE index
                /\ cmds' = Append(cmds, Cmd("git add", dst_paths(app), IF ok THEN 0 ELSE 128))
           ELSE UNCHANGED <<index, cmds>>
    /\ gpc' = "commit"
    /\ UNCHANGED <<fs, ops, log, app, p4where, p4err, changes, cl_list, idx, cur, commits, head>>
    /\ UNCHANGED mvars

\* what "git commit" may return: 1 when nothing is staged, else 0 or a failure
ReturnCodes == IF index = head THEN {1} ELSE {0, 1}

\* sync_cl, lines 284-298: commit, raise when it failed; then the next cl
SyncClCommit ==
    /\ gpc = "commit"
    /\ \E rc \in ReturnCodes :
          LET env_date == str(cur.date)
              message == git_desc(app, cur.description, cur.cl)
              result == [ran |-> git_run_env(app), returncode |-> rc]
              made == result.ran /\ rc = 0
          IN  /\ ~result.ran => rc = 1
              /\ cmds' = IF result.ran
                         THEN Append(cmds, Cmd("git commit",
                                  [message |-> message, GIT_AUTHOR_DATE |-> env_date,
                                   GIT_COMMITTER_DATE |-> env_date], rc))
                         ELSE cmds
              /\ commits' = IF made
                            THEN Append(commits, [message |-> message, author_date |-> env_date,
                                                  committer_date |-> env_date, tree |-> index,
                                                  cl |-> cur.cl])
                            ELSE commits
              /\ head' = IF made THEN index ELSE head
              /\ IF commit_failed(result)
                 THEN gpc' = "raised" /\ idx' = idx
                 ELSE /\ idx' = idx + 1
                      /\ gpc' = IF idx + 1 > Len(cl_list) THEN "done" ELSE "describe"
    /\ UNCHANGED <<fs, ops, log, app, p4where, p4err, changes, cl_list, cur, index>>
    /\ UNCHANGED mvars

\* reverse, lines 304-307: mirror every resolved pair, git tree to workspace
ReverseMirror ==
    /\ gpc = "ready"
    /\ LET m == mirror_all_paths(World, app, TRUE, 1)
       IN  /\ fs' = m.fs
           /\ ops' = m.ops
           /\ log' = m.log
           /\ gpc' = IF m.raised THEN "raised" ELSE "reconcile"
    /\ UNCHANGED <<app, p4where, p4err, changes, cl_list, idx, cur, cmds, commits, head, index>>
    /\ UNCHANGED mvars

\* reverse, lines 309-311
ReverseReconcile ==
    /\ gpc = "reconcile"
    /\ cmds' = IF p4_run(app) THEN Append(cmds, Cmd("p4 reconcile", depot_paths(app), <<>>))
               ELSE cmds
    /\ gpc' = "reversed"
    /\ UNCHANGED <<fs, ops, log, app, p4where, p4err, changes, cl_list, idx, cur, commits, head, index>>
    /\ UNCHANGED mvars

NextSync ==
    \/ Construct
    \/ SyncRangeDiscover \/ SyncRangeReset
    \/ SyncClDescribe \/ SyncClP4Sync \/ SyncClMirror \/ SyncClAdd \/ SyncClCommit
    \/ ReverseMirror \/ ReverseReconcile

SpecSync == InitSync /\ [][NextSync]_vars

\* ============================================================ properties
Under(f, root) == { p \in DOMAIN f : IsPrefix(root, p) /\ p # root }
RelPaths(f, root) == { relative_to(p, root) : p \in Under(f, root) }
Ignored(rel) == should_ignore(syncer.ignore, rel)
KindAt(f, p) == IF PathExists(f, p) THEN f[p].kind ELSE "absent"
Completed == pc = "done" /\ ~syncer.dry_run

\* C1: after a completed run without dry-run, every relative path that no
\* ignore rule excludes exists under dst iff it exists under src, with the
\* same kind, and with the same content when it is a file.
C1_MirrorExact ==
    Completed =>
        \A rel \in RelPaths(fs, syncer.src) \cup RelPaths(fs, syncer.dst) :
            ~Ignored(rel) =>
                /\ KindAt(fs, syncer.dst \o rel) = KindAt(fs, syncer.src \o rel)
                /\ IsFile(fs, syncer.src \o rel) =>
                      fs[syncer.dst \o rel].content = fs[syncer.src \o rel].content

\* C2: no step of run() removes or changes a destination entry whose
\* relative path has an ignored segment, and none chmods one.
IgnoredDstKept ==
    /\ \A p \in Under(fs, syncer.dst) :
          Ignored(relative_to(p, syncer.dst)) => p \in DOMAIN fs' /\ fs'[p] = fs[p]
    /\ \A i \in 1..Len(ops') :
          (ops'[i].op \in {"chmod", "unlink", "rmtree"} /\ IsPrefix(syncer.dst, ops'[i].path))
              => ~Ignored(relative_to(ops'[i].path, syncer.dst))
C2_IgnoredNeverDeleted == [][IgnoredDstKept]_vars

\* C3: no step of run() creates a destination directory or writes a
\* destination file whose relative path has an ignored segment.
IgnoredDstNotMade ==
    /\ \A p \in Under(fs', syncer.dst) :
          Ignored(relative_to(p, syncer.dst)) => p \in DOMAIN fs /\ fs[p] = fs'[p]
    /\ \A i \in 1..Len(ops') :
          (ops'[i].op \in {"mkdir", "copy"} /\ IsPrefix(syncer.dst, ops'[i].path))
              => ~Ignored(relative_to(ops'[i].path, syncer.dst))
C3_IgnoredNeverCreated == [][IgnoredDstNotMade]_vars

\* C3 witness: a source tree with content below an ignored directory has
\* been mirrored, and the run did copy or create something.
C3_Witness ==
    /\ Completed
    /\ IsFile(fs, syncer.src \o <<NG, NA>>)
    /\ Ignored(<<NG, NA>>)
    /\ ~PathExists(fs, syncer.dst \o <<NG>>)
    /\ \E i \in 1..Len(ops) : ops[i].op = "copy"
    /\ \E i \in 1..Len(ops) : ops[i].op = "mkdir"

\* C4 as stated: the second of two runs in a row executes no filesystem
\* mutation and leaves the destination as the first run left it.
C4_SecondRunNoMutation ==
    (rerun /\ ~syncer.dry_run) => (ops = <<>> /\ fs = fs0)


\* C4 as amended: the second of two runs in a row creates no directory and
\* removes no tree; it chmods and copies the source files again, unlinks
\* only files that it created itself, never removes or changes an entry the
\* first run left, and on completion leaves the trees as the first run did.
C4_SecondRunRestores ==
    (rerun /\ ~syncer.dry_run) =>
        /\ \A i \in 1..Len(ops) :
              /\ ops[i].op \in {"chmod", "copy", "unlink"}
              /\ ops[i].op = "unlink" => ops[i].path \notin DOMAIN fs0
        /\ \A p \in DOMAIN fs0 : p \in DOMAIN fs /\ fs[p] = fs0[p]
        /\ pc # "raised"
        /\ pc = "done" => fs = fs0

\* C4 witness: a second run has completed; it chmodded and copied again over
\* the files the first run left, a nested one among them.
C4_Witness ==
    /\ rerun /\ Completed
    /\ \E i \in 1..Len(ops) : ops[i].op = "copy"
    /\ \E i \in 1..Len(ops) : ops[i].op = "chmod"
    /\ IsFile(fs, syncer.dst \o <<NA, NG>>)
    /\ fs = fs0


\* ------------------------------------------------------ both programs
SpecAll == (InitMirror \/ InitSync) /\ [][NextMirror \/ NextSync]_vars

Queries == {"p4 where", "p4 changes", "p4 describe"}
NewCmds == SubSeq(cmds', Len(cmds) + 1, Len(cmds'))

\* C5: with dry_run set, no step of sync_range, sync_cl, reverse or
\* FileSyncUtil.run changes the filesystem, executes a mutating filesystem
\* call, changes the history or the staging area, or executes a command
\* other than the queries p4 where, p4 changes and p4 describe.
DryStepPure ==
    (app.dry_run \/ syncer.dry_run) =>
        /\ fs' = fs
        /\ ops' = ops
        /\ commits' = commits /\ head' = head /\ index' = index
        /\ \A i \in 1..Len(NewCmds) : NewCmds[i].cmd \in Queries
C5_DryRunPure == [][DryStepPure]_vars

\* C5 witness: a dry-run sync_range has replayed two changes to the end and
\* logged mirror decisions, with only queries executed.
C5_Witness ==
    /\ app.dry_run
    /\ gpc = "done"
    /\ Len(cl_list) = 2
    /\ \E i \in 1..Len(log) : log[i].op = "copy"
    /\ \E i \in 1..Len(cmds) : cmds[i].cmd = "p4 describe"
    /\ fs = fs0

\* the ids in ascending numeric order, each once
RECURSIVE Ascending(_)
Ascending(S) ==
    IF S = {} THEN <<>>
    ELSE LET least == CHOOSE x \in S : \A y \in S : int(x) <= int(y)
         IN  <<least>> \o Ascending(S \ {least})
Discovered == gpc \notin {"none", "new", "ready", "reversed", "reconcile"} /\ changes # <<>>

\* C6: the replay list is the ids the changes query returned, each once, in
\* ascending numeric order.
C6_NumericOrder == Discovered => cl_list = Ascending(Range(changes))

IsFailedCommit(c) == c.cmd = "git commit" /\ c.out # 0

\* C7: once a git commit has returned non-zero, sync_cl has raised and no
\* further command (describe, sync, add, commit) is executed, nor any
\* further mirror call.
C7_FailFast ==
    \A i \in 1..Len(cmds) :
        IsFailedCommit(cmds[i]) => (i = Len(cmds) /\ gpc = "raised")
C7_FailFastStep ==
    (gpc = "raised") => (cmds' = cmds /\ ops' = ops /\ fs' = fs /\ gpc' = gpc)
C7_FailFastAlways == []C7_FailFast /\ [][C7_FailFastStep]_vars

\* C7 witness: the commit of the first of two changes failed and the run
\* has raised with the second change still to replay.
C7_Witness ==
    /\ gpc = "raised"
    /\ cmds # <<>> /\ IsFailedCommit(cmds[Len(cmds)])
    /\ Len(cl_list) = 2 /\ idx = 1

CommitCls == [k \in 1..Len(commits) |-> commits[k].cl]

\* C8: when sync_range ends without dry-run, every commit having succeeded,
\* the commits are one for each distinct discovered id, in ascending order.
C8_OneCommitPerChange ==
    (gpc = "done" /\ ~app.dry_run /\ changes # <<>>) =>
        CommitCls = Ascending(Range(changes))

\* the describe answer that the command at position i of cmds belongs to
DescribeBefore(i) ==
    cmds[CHOOSE j \in 1..i : /\ cmds[j].cmd = "p4 describe"
                             /\ \A k \in (j + 1)..i : cmds[k].cmd # "p4 describe"]
Trailer(cl) == <<"\n", "C", "L", " ">> \o cl
CreatedCommit(i) == cmds[i].cmd = "git commit" /\ cmds[i].out = 0

\* C9 as stated: both dates of every created commit are the submit time of
\* its change; the message is the description, then "CL <id>" on a last
\* line unless no_cl.
C9_MetadataVerbatim ==
    \A i \in 1..Len(cmds) :
        CreatedCommit(i) =>
            LET d == DescribeBefore(i)
            IN  /\ cmds[i].args.GIT_AUTHOR_DATE = d.out.time
                /\ cmds[i].args.GIT_COMMITTER_DATE = d.out.time
                /\ cmds[i].args.message =
                      IF app.no_cl THEN d.out.desc ELSE d.out.desc \o Trailer(d.args[1])

\* b is t without its leading and trailing whitespace
IsStripped(b, t) ==
    \E i \in 1..(Len(t) + 1), j \in 0..Len(t) :
        /\ b = SubSeq(t, i, j)
        /\ \A k \in 1..(i - 1) : t[k] \in Whitespace
        /\ \A k \in (j + 1)..Len(t) : t[k] \in Whitespace
        /\ b # <<>> => (b[1] \notin Whitespace /\ b[Len(b)] \notin Whitespace)

\* C9 as amended: both dates of every created commit are the submit time of
\* its change; the message is the description without its leading and
\* trailing whitespace, then "CL <id>" on a last line unless no_cl.  The
\* commit recorded in the history carries the same message and dates.
C9_MetadataStripped ==
    \A i \in 1..Len(cmds) :
        CreatedCommit(i) =>
            LET d == DescribeBefore(i)
                msg == cmds[i].args.message
                tr == IF app.no_cl THEN <<>> ELSE Trailer(d.args[1])
                nth == Cardinality({ j \in 1..i : CreatedCommit(j) })
            IN  /\ cmds[i].args.GIT_AUTHOR_DATE = d.out.time
                /\ cmds[i].args.GIT_COMMITTER_DATE = d.out.time
                /\ Len(msg) >= Len(tr)
                /\ SubSeq(msg, Len(msg) - Len(tr) + 1, Len(msg)) = tr
                /\ IsStripped(SubSeq(msg, 1, Len(msg) - Len(tr)), d.out.desc)
                /\ nth <= Len(commits)
                /\ commits[nth].message = msg
                /\ commits[nth].author_date = d.out.time
                /\ commits[nth].committer_date = d.out.time

\* C9 witness: commits were created with and without surrounding whitespace
\* in the description, the run is over.
C9_Witness ==
    /\ gpc = "done"
    /\ Len(commits) = 2
    /\ \E i \in 1..Len(cmds) :
          CreatedCommit(i) /\ DescribeBefore(i).out.desc[1] \in Whitespace
    /\ \E i \in 1..Len(cmds) :
          CreatedCommit(i) /\ DescribeBefore(i).out.desc[1] \notin Whitespace

Unresolved(i) == Len(p4where[app.path_map[i].depot]) # 1

\* C10: a configured pair whose "p4 where" did not answer exactly one result
\* is not in resolved_path_map, nothing below its destination is touched by
\* a mirror, and its depot path is in the arguments of no p4 changes, p4
\* sync or p4 reconcile.
C10_UnresolvedExcluded ==
    gpc \notin {"none", "new"} =>
        \A i \in 1..Len(app.path_map) :
            Unresolved(i) =>
                LET dp == app.path_map[i].depot
                    dst == PathJoin(app.dst_root, app.path_map[i].dst_rel)
                IN  /\ \A k \in 1..Len(app.resolved_path_map) :
                          app.resolved_path_map[k].dst # dst
                    /\ \A k \in 1..Len(ops) : ~IsPrefix(dst, ops[k].path)
                    /\ \A k \in 1..Len(cmds) :
                          /\ cmds[k].cmd \in {"p4 changes", "p4 sync"} =>
                                \A v \in 1..Len(cmds[k].args) : cmds[k].args[v].path # dp
                          /\ cmds[k].cmd = "p4 reconcile" =>
                                \A v \in 1..Len(cmds[k].args) : cmds[k].args[v] # dp

\* ------------------------------------------------- C15, C20: the roots
\* the places a copy of the source file at rel may be written to
CopiedTo(rel) == { syncer.dst \o rel, syncer.dst \o rel \o <<rel[Len(rel)]>> }

\* C15: whether the mirror skips an entry depends only on the segments of
\* its path relative to the root: after a completed run without dry-run,
\* every source file whose relative path has no ignored segment has been
\* copied, wherever the source root is located.
C15_LocationIndependent ==
    Completed =>
        \A p \in Under(fs0, syncer.src) :
            (IsFile(fs0, p) /\ PathExists(fs0, p) /\ ~Ignored(relative_to(p, syncer.src)))
                => \E i \in 1..Len(ops) :
                       /\ ops[i].op = "copy"
                       /\ ops[i].path \in CopiedTo(relative_to(p, syncer.src))

\* C20: no step of run() adds, removes or changes an entry at or below the
\* src root, and no mutating call of run() is made on a path below it.
SrcKept ==
    /\ \A p \in DOMAIN fs \cup DOMAIN fs' :
          IsPrefix(syncer.src, p) => (p \in DOMAIN fs /\ p \in DOMAIN fs' /\ fs'[p] = fs[p])
    /\ \A i \in 1..Len(ops') : ~IsPrefix(syncer.src, ops'[i].path)
C20_SourceReadOnly == [][SrcKept]_vars

\* ------------------------------------------- C17, C19: resolve_paths
Constructed == gpc \notin {"none", "new"}
Queried(i) ==
    \E k \in 1..Len(cmds) :
        cmds[k].cmd = "p4 where" /\ cmds[k].args = <<app.path_map[i].depot>>
OneResult(i) ==
    Len(p4where[app.path_map[i].depot]) = 1 /\ app.path_map[i].depot \notin p4err
Resolved(i) ==
    \E k \in 1..Len(app.resolved_path_map) :
        /\ app.resolved_path_map[k].src = LocalOf(app.path_map[i].depot)
        /\ app.resolved_path_map[k].dst = PathJoin(app.dst_root, app.path_map[i].dst_rel)
OnlyResolving == gpc = "raised" /\ \A k \in 1..Len(cmds) : cmds[k].cmd = "p4 where"

\* C17: once the GitP4Sync is constructed, every configured pair has been
\* queried, resolved_path_map holds a pair iff its query returned exactly
\* one result, and no query outcome (none, several, an error) has made the
\* construction raise.
C17_PerPairResolution ==
    Constructed =>
        /\ \A i \in 1..Len(app.path_map) : Queried(i) /\ (Resolved(i) <=> OneResult(i))
        /\ ~OnlyResolving

Forward == \E k \in 1..Len(cmds) : cmds[k].cmd = "p4 changes"

\* C19: every destination path of resolved_path_map lies under the
\* destination root, and every mutating call of a forward mirror is made on
\* a path under the destination root.
C19_DestinationConfined ==
    Constructed =>
        /\ \A k \in 1..Len(app.resolved_path_map) :
              IsPrefix(app.dst_root, app.resolved_path_map[k].dst)
        /\ Forward => \A i \in 1..Len(ops) : IsPrefix(app.dst_root, ops[i].path)

\* ------------------------------------------------ C11: empty discovery
EmptyAnswer(k) == cmds[k].cmd = "p4 changes" /\ cmds[k].out = <<>>
EndedEmpty == cmds # <<>> /\ EmptyAnswer(Len(cmds))

\* when the changes query has answered nothing it is the last command, the
\* run is over without a raise, nothing was mirrored and nothing committed
EmptyIsLast ==
    \A k \in 1..Len(cmds) :
        EmptyAnswer(k) =>
            /\ k = Len(cmds) /\ gpc = "done"
            /\ \A j \in 1..(k - 1) : cmds[j].cmd = "p4 where"
            /\ commits = <<>> /\ ops = <<>> /\ log = <<>> /\ fs = fs0
\* the step that receives the empty answer, and every step after it, leaves
\* the trees, the staging area and the history as they are
EmptyStep ==
    (cmds' # <<>> /\ cmds'[Len(cmds')].cmd = "p4 changes" /\ cmds'[Len(cmds')].out = <<>>) =>
        /\ fs' = fs /\ ops' = ops /\ log' = log
        /\ index' = index /\ head' = head /\ commits' = commits
        /\ gpc' = "done"

\* C11: when the changes query of sync_range returns no change, sync_range
\* returns without raising; no git reset, p4 sync, mirror, git add or git
\* commit is performed, and the history, the staging area, the workspace
\* and both trees are unchanged.
C11_EmptyNoOp == []EmptyIsLast /\ [][EmptyStep]_vars

\* C11 witness: a run without dry-run over two resolved pairs has ended on
\* an empty answer, with leftover staged work still staged.
C11_Witness ==
    /\ EndedEmpty /\ gpc = "done"
    /\ ~app.dry_run
    /\ Len(app.resolved_path_map) = 2
    /\ index # head

\* ------------------------------------------------- C12: the step order
\* the mirrors started so far: the "Syncing directories" lines of the log
RunLines == SelectSeq(log, LAMBDA l : l.op = "Syncing directories")
CountCmd(c) == Cardinality({ k \in 1..Len(cmds) : cmds[k].cmd = c })
Describe(n) ==
    cmds[CHOOSE k \in 1..Len(cmds) :
            /\ cmds[k].cmd = "p4 describe"
            /\ Cardinality({ j \in 1..k : cmds[j].cmd = "p4 describe" }) = n]
\* the n-th mirror of a flow is that of the resolved pair it is due for
PairOfRun(n) == app.resolved_path_map[((n - 1) % Len(app.resolved_path_map)) + 1]

\* each command of the replay directly follows the one the order names
InOrder(k) ==
    /\ cmds[k].cmd = "p4 describe" =>
          /\ k > 1
          /\ \/ cmds[k - 1].cmd = "git reset"
             \/ cmds[k - 1].cmd = "git commit" /\ cmds[k - 1].out = 0
    /\ cmds[k].cmd = "p4 sync" =>
          /\ k > 1 /\ cmds[k - 1].cmd = "p4 describe"
          /\ \A v \in 1..Len(cmds[k].args) : cmds[k].args[v].rev = cmds[k - 1].args[1]
    /\ cmds[k].cmd = "git add" => (k > 1 /\ cmds[k - 1].cmd = "p4 sync")
    /\ cmds[k].cmd = "git commit" => (k > 1 /\ cmds[k - 1].cmd = "git add")
\* between a p4 sync and the git add after it every resolved pair has been
\* mirrored once, workspace to destination, and no mirror runs elsewhere
Mirrored ==
    LET R == Len(app.resolved_path_map)
        done == IF cmds # <<>> /\ cmds[Len(cmds)].cmd = "p4 sync"
                THEN {CountCmd("p4 sync") - 1, CountCmd("p4 sync")}
                ELSE {CountCmd("p4 sync")}
    IN  /\ \E n \in done : Len(RunLines) = n * R
        /\ \A n \in 1..Len(RunLines) :
              RunLines[n].src = PairOfRun(n).src /\ RunLines[n].path = PairOfRun(n).dst
\* the changes are described in the order of the replay list, and the run
\* ends after the commit of the last one or at a failed commit
Ended ==
    /\ \A n \in 1..CountCmd("p4 describe") :
          n <= Len(cl_list) /\ Describe(n).args = <<cl_list[n]>>
    /\ (gpc = "done" /\ cl_list # <<>>) =>
          /\ cmds[Len(cmds)].cmd = "git commit" /\ cmds[Len(cmds)].out = 0
          /\ CountCmd("git commit") = Len(cl_list)
    /\ gpc = "raised" => IsFailedCommit(cmds[Len(cmds)])
StepOrder ==
    (Forward /\ ~app.dry_run) =>
        /\ \A k \in 1..Len(cmds) : InOrder(k)
        /\ Mirrored
        /\ Ended
Halted == (Forward /\ gpc \in {"done", "raised"}) => UNCHANGED vars

\* C12: in a sync_range run without dry-run each change is replayed as
\* describe, p4 sync to exactly its id, mirror of every resolved pair, git
\* add, git commit; the describe of the next change directly follows the
\* successful commit of the current one; the run ends after the commit of
\* the last change or at the first failed commit, and no step follows.
C12_StepOrder == []StepOrder /\ [][Halted]_vars

\* C12 witness: two changes have been replayed to the end over two resolved
\* pairs, four mirrors and two commits.
C12_Witness ==
    /\ gpc = "done" /\ ~app.dry_run
    /\ Len(cl_list) = 2 /\ Len(commits) = 2
    /\ Len(app.resolved_path_map) = 2
    /\ Len(RunLines) = 4

\* --------------------------------- C13: what a failed commit leaves
FailedCommit == gpc = "raised" /\ Forward /\ IsFailedCommit(cmds[Len(cmds)])
\* the local paths the client maps a depot path to
LocalPaths(d) == { removesuffix(p4where[d][i]) : i \in 1..Len(p4where[d]) }
\* below lp the workspace holds exactly the depot's files of change cl
SyncedTo(lp, cl) ==
    /\ \A q \in DOMAIN DepotTree(lp, cl) : q \in DOMAIN fs /\ fs[q] = DepotTree(lp, cl)[q]
    /\ \A q \in DOMAIN fs : IsPrefix(lp, q) => q \in DOMAIN DepotTree(lp, cl)
\* the destination of a resolved pair is as its mirror left it: what no
\* rule ignores is there iff the workspace has it, with the same content
MirrorKept(pr) ==
    \A rel \in RelPaths(fs, pr.src) \cup RelPaths(fs, pr.dst) :
        ~should_ignore(app.ignore, rel) =>
            /\ KindAt(fs, pr.dst \o rel) = KindAt(fs, pr.src \o rel)
            /\ IsFile(fs, pr.src \o rel) => fs[pr.dst \o rel].content = fs[pr.src \o rel].content
FailState ==
    FailedCommit =>
        /\ CommitCls = SubSeq(cl_list, 1, idx - 1)
        /\ \A d \in Depots : \A lp \in LocalPaths(d) : SyncedTo(lp, cl_list[idx])
        /\ \A k \in 1..Len(app.resolved_path_map) : MirrorKept(app.resolved_path_map[k])
FailStep ==
    (gpc' = "raised" /\ gpc = "commit") =>
        (fs' = fs /\ commits' = commits /\ head' = head /\ index' = index)

\* C13: when the commit for change N fails, the history is exactly the
\* commits of the changes replayed before N, the workspace is synced to N,
\* and the destination trees are as the mirror of N left them; the failing
\* step rolls nothing back.
C13_FailureState == []FailState /\ [][FailStep]_vars

\* C13 witness: the commit of the second change failed after the first was
\* committed, the mirrors having changed the destination.
C13_Witness ==
    /\ FailedCommit
    /\ idx = 2 /\ Len(commits) = 1
    /\ Len(app.resolved_path_map) = 2
    /\ fs # fs0
    /\ \E i \in 1..Len(ops) : ops[i].op = "unlink"

\* --------------------------------------- C14: the staging area reset
\* the files of HEAD when the run began
Head0 == [p \in { q \in WorkFiles(fs0, app.dst_root) : q \notin DOMAIN Leftover } |-> fs0[p]]
Replaying(k) == cmds[k].cmd \in {"p4 describe", "p4 sync", "git add", "git commit"}
Pathspecs == { PathJoin(app.dst_root, app.path_map[i].dst_rel) : i \in 1..Len(app.path_map) }
ResetOnce ==
    (Forward /\ ~app.dry_run) =>
        /\ CountCmd("git reset") <= 1
        /\ \A k \in 1..Len(cmds) :
              cmds[k].cmd = "git reset" => (k > 1 /\ cmds[k - 1].cmd = "p4 changes")
        /\ (RunLines # <<>> \/ \E k \in 1..Len(cmds) : Replaying(k)) =>
              \E r \in 1..Len(cmds) :
                  /\ cmds[r].cmd = "git reset"
                  /\ \A k \in 1..Len(cmds) : Replaying(k) => r < k
        /\ \A c \in 1..Len(commits) :
              \A p \in DOMAIN commits[c].tree :
                  \/ p \in DOMAIN Head0
                  \/ \E ps \in Pathspecs : IsPrefix(ps, p)
\* no mirror runs before the reset
ResetBeforeMirror ==
    (Forward /\ ~app.dry_run /\ log' # log) => CountCmd("git reset") = 1

\* C14: in a sync_range run without dry-run that discovers a change the
\* staging area is reset exactly once, directly after discovery and before
\* the first p4 sync, mirror, git add or git commit, never again between
\* changes; every commit holds only what HEAD held or what was staged by a
\* git add after that reset.
C14_ResetOnce == []ResetOnce /\ [][ResetBeforeMirror]_vars

\* C14 witness: two changes were committed in a repository that had a
\* leftover staged file, which is in no commit.
C14_Witness ==
    /\ gpc = "done" /\ ~app.dry_run
    /\ Len(commits) = 2
    /\ CountCmd("git reset") = 1
    /\ \A p \in DOMAIN Leftover : IsFile(fs0, p) /\ p \notin DOMAIN head

\* ------------------------------------------- C16: the dry-run preview
\* the decisions among the lines of a log
Decisions(lg) ==
    LET ds == SelectSeq(lg, LAMBDA l : l.op \in {"mkdir", "copy", "rm", "rmdir"})
    IN  [i \in 1..Len(ds) |-> Op(ds[i].op, ds[i].path)]
RealApp == [app EXCEPT !.dry_run = FALSE]
\* the mirror of the k-th change in the run without dry-run that starts
\* from the same trees, every commit succeeding
RECURSIVE RealMirror(_)
RealMirror(k) ==
    LET before == IF k = 1 THEN fs0 ELSE RealMirror(k - 1).fs
        synced == P4SyncFs(before, p4where, view_paths(RealApp, cl_list[k]), 1)
    IN  mirror_all_paths([fs |-> synced, ops |-> <<>>, log |-> <<>>, raised |-> FALSE],
                         RealApp, FALSE, 1)
PreviewStep ==
    (app.dry_run /\ gpc = "mirror" /\ gpc' # gpc) =>
        Decisions(SubSeq(log', Len(log) + 1, Len(log'))) = Decisions(RealMirror(idx).log)

\* C16: the mirror decisions a dry-run of sync_range logs for a change are
\* the decisions the run without dry-run logs and executes for that change,
\* from the same configuration, trees and changes.
C16_PreviewAccurate == [][PreviewStep]_vars

\* -------------------------------------------------- C18: reverse()
Reversing == gpc \in {"reconcile", "reversed"}
Swapped(pr) == [src |-> pr.dst, dst |-> pr.src]
ReverseState ==
    Reversing =>
        \* one mirror for each resolved pair, repository to workspace
        /\ Len(RunLines) = Len(app.resolved_path_map)
        /\ \A n \in 1..Len(RunLines) :
              /\ RunLines[n].src = app.resolved_path_map[n].dst
              /\ RunLines[n].path = app.resolved_path_map[n].src
        /\ \A i \in 1..Len(ops) :
              \E k \in 1..Len(app.resolved_path_map) :
                  IsPrefix(app.resolved_path_map[k].src, ops[i].path)
        /\ ~app.dry_run =>
              \A k \in 1..Len(app.resolved_path_map) : MirrorKept(Swapped(app.resolved_path_map[k]))
        \* the destination tree is as it was
        /\ \A p \in DOMAIN fs \cup DOMAIN fs0 :
              (\/ IsPrefix(app.dst_root, p)
               \/ \E k \in 1..Len(app.resolved_path_map) :
                      IsPrefix(app.resolved_path_map[k].dst, p))
                  => (p \in DOMAIN fs /\ p \in DOMAIN fs0 /\ fs[p] = fs0[p])
        /\ commits = <<>>
        \* p4 where apart, the one command is the reconcile that ends it
        /\ \A k \in 1..Len(cmds) : cmds[k].cmd \in {"p4 where", "p4 reconcile"}
        /\ CountCmd("p4 reconcile") = IF gpc = "reversed" /\ ~app.dry_run THEN 1 ELSE 0
        /\ \A k \in 1..Len(cmds) :
              cmds[k].cmd = "p4 reconcile" =>
                  /\ k = Len(cmds)
                  /\ \A i \in 1..Len(app.path_map) :
                        OneResult(i) => \E v \in 1..Len(cmds[k].args) :
                                           cmds[k].args[v] = app.path_map[i].depot
ReverseStep ==
    /\ (gpc = "ready" /\ gpc' = "reconcile") =>
          (cmds' = cmds /\ index' = index /\ head' = head)
    /\ gpc = "reconcile" =>
          (fs' = fs /\ ops' = ops /\ log' = log /\ index' = index /\ head' = head)

\* C18: reverse() mirrors every resolved pair from its destination path to
\* its workspace path, then runs p4 reconcile once over the mapped depot
\* paths; it runs no p4 sync, p4 submit, git reset, git add or git commit
\* and changes nothing in the destination tree.
C18_ReverseFlow == []ReverseState /\ [][ReverseStep]_vars

\* C18 witness: a reverse() without dry-run over two resolved pairs has
\* copied into the workspace and reconciled.
C18_Witness ==
    /\ gpc = "reversed" /\ ~app.dry_run
    /\ Len(app.resolved_path_map) = 2
    /\ \E i \in 1..Len(ops) : ops[i].op = "copy"
    /\ fs # fs0
    /\ cmds[Len(cmds)].cmd = "p4 reconcile"

====
